---- MODULE Spec2Model ----
(***************************************************************************)
(* Salesforce Implementation Tracker, MCP server (src/mcp_server.py).      *)
(*                                                                         *)
(* The server is one asyncio process.  A task (the startup lifespan, or a  *)
(* tool invocation) runs without preemption from one await to the next;    *)
(* every await in the source is an HTTP call to the upstream API.  An      *)
(* action of this model is one such run: the upstream's answer to the      *)
(* task's pending call arrives and the task executes up to its next HTTP   *)
(* send, or to its return or raise.                                        *)
(*                                                                         *)
(* A Python str is a sequence of tokens.  Record references are written    *)
(* one character per token, so Len is the Python len; picklist texts are   *)
(* written with one token per maximal run that holds no leading or         *)
(* trailing blank and no ';'.  An Optional[str] is <<>> for None and       *)
(* <<s>> otherwise.                                                        *)
(***************************************************************************)
EXTENDS Integers, Sequences, FiniteSets, TLC

VARIABLES
    environ,            \* os.environ as the process was started with
    token,              \* SalesforceClient.token ("None" until authenticate stores one)
    access_ctl,         \* AccessControl: user_id, profile_name, is_admin, is_manager
    create_timestamps,  \* module-level list of the times of successful creates
    now,                \* the wall clock, time.time(), in seconds
    inv                 \* per task: the tool invocation it runs and where it is suspended

vars == <<environ, token, access_ctl, create_timestamps, now, inv>>

----------------------------------------------------------------------------
(* Picklist valid values, lines 25-69 *)

VALID_IMPLEMENTATION_STAGES ==
    << "00 - Kick Off Call", "01 - Explore", "02 - Planning", "03 - In Progress",
       "04 - Final Review", "05 - Complete", "06 - Passive", "07 - Paused",
       "08 - Unsuccessful" >>

VALID_PROGRAM_HEALTH ==
    << "Healthy", "Passive", "Paused", "Unresponsive", "Risk", "Churn", "High Risk" >>

VALID_CONTRACT_TYPES == << "Annual", "Free Trial", "Pay as you go" >>

VALID_TYPES == << "Join", "Pure Migration", "Join - Lite", "Join - Quickstart", "Other" >>

VALID_MIGRATION_TYPES ==
    << "Customer Tooling", "Dual-write and backfill", "Parallel Copy",
       "pg_dump and pg_restore", "NA", "TS Tooling", "Live Migration" >>

VALID_FEATURES ==
    << "Read Replicas", "HA Replicas", "Data Tiering", "Caggs",
       "Compression", "Migration", "Vector", "Hypertables" >>

VALID_PROJECT_TASKS ==
    << "CAGG", "Case work", "Compression", "Connection Pooling", "HA Replica",
       "Hypershift", "Ingest", "Internal Meetings - Non Customer", "Internal Testing",
       "Migration", "POC", "Project Plan", "Query Optimization", "Read Replica",
       "Replica", "Retention", "CNS", "Sales", "Sales Call", "Schema Design",
       "Security", "Sizing", "Troubleshooting", "VPC" >>

VALID_PROJECT_TYPES ==
    << "Churn", "Implementation", "Internal Meetings", "Join", "Join - Lite",
       "Join - QS", "Pre-Sales", "Pre-Sales (Discover Call)", "Projects",
       "Support", "Training" >>

VALID_RECORD_STAGES == << "Trial", "Pre-Production", "Production" >>

UPDATABLE_FIELDS ==
    { "Implementation_Stage__c", "Program_Health__c", "Type__c", "Contract_Type__c",
      "Migration_Type__c", "Features__c", "Contracted_Hours__c", "Percent_Complete__c",
      "In_Production__c", "Risks__c", "Comments__c", "Post_Mortem__c",
      "Technical_Win__c", "Migration_Source__c", "Support_Tier__c",
      "Grafana__c", "Project_Doc__c", "CDE__c", "CSM__c",
      "Customer_Start_Date__c", "Kick_Off_Call__c", "Estimated_Graduation_Date__c",
      "Production_Date__c", "Final_Review_Call__c", "Next_Step_Date__c",
      "X3_Month_Check_In__c", "Adjustment_Days__c",
      "ARR_Start_of_Program__c", "ARR_End_of_Program__c",
      "Hypertables_Start_of_Program__c", "Hypertables_End_of_Program__c",
      "Caggs_Start_of_Program__c", "Caggs_End_of_Program__c",
      "Compression_Ratio_Start_of_Program__c", "Compression_Ratio_End_of_Program__c",
      "DUM_Start_of_Program__c", "DUM_End_of_Program__c",
      "Number_of_Services_Start_of_Program__c", "Number_of_Services_End_of_Program__c",
      "Tiered_Data_Start_of_Program__c", "Tiered_Data_End_of_Program__c",
      "Contract__c", "Billing_Category__c" }

PICKLIST_VALIDATORS ==
    [ f \in { "Implementation_Stage__c", "Program_Health__c", "Contract_Type__c",
              "Type__c", "Migration_Type__c" } |->
        CASE f = "Implementation_Stage__c" -> VALID_IMPLEMENTATION_STAGES
          [] f = "Program_Health__c"       -> VALID_PROGRAM_HEALTH
          [] f = "Contract_Type__c"        -> VALID_CONTRACT_TYPES
          [] f = "Type__c"                 -> VALID_TYPES
          [] f = "Migration_Type__c"       -> VALID_MIGRATION_TYPES ]

MULTIPICKLIST_VALIDATORS == [ f \in { "Features__c" } |-> VALID_FEATURES ]

MAX_CREATES_PER_WINDOW == 5

CREATE_WINDOW_SECONDS == 60

(* An identity is manager when its normalised email equals SF_MANAGER_EMAIL. *)
MANAGER_EMAIL == << "m", "@", "x" >>

ADMIN_PROFILE == "System Administrator"

(* resp.status_code == 401 in _request *)
UNAUTHORIZED == 401

----------------------------------------------------------------------------
(* Python str and list operations used by the source *)

None == << >>

Some(s) == << s >>

(* Python truth of an Optional[str]: None and "" are false. *)
Truthy(o) == o # None /\ o[1] # << >>

Whitespace == { " ", "\t", "\n" }

RECURSIVE LStrip(_)
LStrip(s) == IF s # << >> /\ Head(s) \in Whitespace THEN LStrip(Tail(s)) ELSE s

RECURSIVE RStrip(_)
RStrip(s) ==
    IF s # << >> /\ s[Len(s)] \in Whitespace THEN RStrip(SubSeq(s, 1, Len(s) - 1)) ELSE s

(* Strip that takes one whitespace character at most from each end *)
StripOnce(s) ==
    LET l == IF s # << >> /\ Head(s) \in Whitespace THEN Tail(s) ELSE s
    IN  IF l # << >> /\ l[Len(l)] \in Whitespace THEN SubSeq(l, 1, Len(l) - 1) ELSE l

(* str.strip() *)
Strip(s) == RStrip(LStrip(s))

(* str.lower() on the characters the inputs are written with *)
LowerChar(c) ==
    CASE c = "A" -> "a" [] c = "B" -> "b" [] c = "M" -> "m" [] c = "X" -> "x"
      [] OTHER -> c

Lower(s) == [ i \in 1..Len(s) |-> LowerChar(s[i]) ]

(* s[:n] *)
Prefix(s, n) == SubSeq(s, 1, IF Len(s) < n THEN Len(s) ELSE n)

(* str.split(";"): the parts between the separators, empty parts kept *)
RECURSIVE Split(_)
Split(s) ==
    IF \A i \in 1..Len(s) : s[i] # ";"
    THEN << s >>
    ELSE LET k == CHOOSE i \in 1..Len(s) : s[i] = ";" /\ \A j \in 1..(i - 1) : s[j] # ";"
         IN  << SubSeq(s, 1, k - 1) >> \o Split(SubSeq(s, k + 1, Len(s)))

(* "x in valid" for a Python list of str *)
InList(s, valid) == \E i \in 1..Len(valid) : s = << valid[i] >>

(* [p for p in parts if p not in valid] *)
RECURSIVE NotInList(_, _)
NotInList(parts, valid) ==
    IF parts = << >> THEN << >>
    ELSE (IF InList(Head(parts), valid) THEN << >> ELSE << Head(parts) >>)
             \o NotInList(Tail(parts), valid)

(* Parts without strip(): the parts as split *)
PartsUntrimmed(value) == Split(value)

(* ";".join(parts) *)
RECURSIVE Join(_)
Join(parts) ==
    IF parts = << >> THEN << >>
    ELSE IF Len(parts) = 1 THEN parts[1]
    ELSE parts[1] \o << ";" >> \o Join(Tail(parts))

(* [v.strip() for v in value.split(";")] *)
Parts(value) == LET raw == Split(value) IN [ i \in 1..Len(raw) |-> Strip(raw[i]) ]

(* A returned text, or the exception a task ends with: the fixed words of   *)
(* the message, the values it names, and the valid values it lists.        *)
MsgValid(kind, info, valid) == [ kind |-> kind, info |-> info, valid |-> valid ]

(* a message that lists no valid values *)
Msg(kind, info) == MsgValid(kind, info, << >>)

NoMsg == Msg("", << >>)

(* validate_picklist: an error message, or NoMsg for None *)
validate_picklist(field, value) ==
    IF field \in DOMAIN PICKLIST_VALIDATORS
          /\ ~InList(value, PICKLIST_VALIDATORS[field])
    THEN MsgValid("Invalid value", << << field >>, value >>, PICKLIST_VALIDATORS[field])
    ELSE IF field \in DOMAIN MULTIPICKLIST_VALIDATORS
    THEN LET valid   == MULTIPICKLIST_VALIDATORS[field]
             invalid == NotInList(Parts(value), valid)
         IN  IF invalid # << >>
             THEN MsgValid("Invalid value(s)", << << field >> >> \o invalid, valid)
             ELSE NoMsg
    ELSE NoMsg

(* LooksLikeId without .lower(): the prefix is compared as it is written *)
LooksLikeIdCaseSensitive(name_or_id) ==
    Len(name_or_id) \in { 15, 18 } /\ Prefix(name_or_id, 2) = << "a", "0" >>

(* resolve_implementation_id, lines 234-237: the stripped input is taken   *)
(* for a record id                                                         *)
LooksLikeId(name_or_id) ==
    Len(name_or_id) \in { 15, 18 } /\ Lower(Prefix(name_or_id, 2)) = << "a", "0" >>

----------------------------------------------------------------------------
(* Bounds of the model *)

(* at most MaxMatches active users have the configured email *)
MaxMatches == 2

(* the clock advances in steps of TickStep seconds, up to MaxTime *)
TickStep == 30

MaxTime == 60

(* no create-type tool is invoked once create_timestamps holds MaxCreates entries *)
MaxCreates == 6

----------------------------------------------------------------------------
(* Tasks, inputs and the upstream's answers *)

Boot == "lifespan"

Callers == { "c1", "c2" }

Tasks == { Boot } \cup Callers

Chars(n, c) == [ i \in 1..n |-> c ]

(* bearer tokens the upstream may hand out *)
Tokens == { "tok1", "tok2" }

(* user ids of the upstream *)
UserIds == { "005U" }

Profiles == { ADMIN_PROFILE, "Standard User" }

(* the id of the row a name lookup returns *)
LookupId == << "a", "0" >> \o Chars(16, "B")

(* HTTP status codes the upstream answers with; 401 is UNAUTHORIZED *)
OkStatus(method) == CASE method = "PATCH" -> 204 [] method = "POST" -> 201 [] OTHER -> 200

ErrorStatuses == { UNAUTHORIZED, 500 }

(* httpx raise_for_status raises on 4xx and 5xx *)
IsError(status) == status >= 400

Exceptions == { "HTTPStatusError", "RuntimeError" }

NoArgs ==
    [ ref |-> << >>, type |-> << >>, contract_type |-> << >>, features |-> None,
      migration_type |-> None, updates |-> << >>, project_task |-> None,
      project_type |-> None, record_stage |-> None, query_type |-> << >>,
      custom_soql |-> None ]

(* one call of SalesforceClient._request, or of authenticate: where it is  *)
(* (st), what it sends, and what it has done so far                        *)
NoReq ==
    [ st |-> "none", method |-> "", path |-> "", first |-> 0, final |-> 0,
      sends |-> 0, auths |-> 0, authok |-> "none", tok |-> "None", tok0 |-> "None" ]

Idle ==
    [ op |-> "idle", pc |-> "idle", in |-> NoArgs,
      now |-> 0,                \* the local now of the rate check
      seen |-> 0,               \* the length of create_timestamps when the tool was called
      record_id |-> << >>,      \* what resolve_implementation_id returned
      rows |-> -1,              \* the number of records of the last query answer
      matches |-> -1,           \* the number of upstream rows the user query matches
      cde_id |-> "unread",      \* the CDE__c that can_update read
      reads |-> 0,              \* get_record calls issued by can_update
      rq |-> NoReq,             \* the pending _request
      last |-> NoReq,           \* the _request that ended last
      admit |-> FALSE,          \* the rate check has passed
      acl |-> "none",           \* what can_update returned: allow or deny
      muts |-> 0,               \* create_record and update_record calls issued
      lookups |-> 0,            \* queries issued by resolve_implementation_id
      payload |-> << >>,        \* the object and field map of the mutating call
      result |-> NoMsg ]        \* the text returned, or the exception raised

(* os.environ: the four required variables, present or not, and the user email *)
Environs ==
    { [ complete |-> TRUE,  USER_EMAIL |-> << "c", "@", "x" >> ],
      [ complete |-> TRUE,  USER_EMAIL |-> << " ", "M", "@", "x" >> ],
      [ complete |-> FALSE, USER_EMAIL |-> << "c", "@", "x" >> ] }

NoAccessControl ==
    [ user_id |-> "None", profile_name |-> "None", is_admin |-> FALSE,
      is_manager |-> FALSE ]

Init ==
    /\ environ \in Environs
    /\ token = "None"
    /\ access_ctl = NoAccessControl
    /\ create_timestamps = << >>
    /\ now = 0
    /\ inv = [ p \in Tasks |-> Idle ]

----------------------------------------------------------------------------
(* SalesforceClient *)

(* a task ends: it returns the text msg, or raises the exception msg *)
Finish(i, msg) == [ i EXCEPT !.pc = "done", !.rq = NoReq, !.result = msg ]

(* authenticate, line 128: the POST to the token endpoint *)
SendAuth(i, pc) ==
    [ i EXCEPT !.pc = pc,
               !.rq = [ @ EXCEPT !.st = "auth", !.auths = @ + 1 ] ]

(* _request, lines 146-148: the first attempt, with the current token *)
SendRequest(i, method, path, pc) ==
    [ i EXCEPT !.pc = pc,
               !.rq = [ NoReq EXCEPT !.st = "first", !.method = method,
                                     !.path = path, !.sends = 1, !.tok = token,
                                     !.tok0 = token ] ]

(* _request returns resp: the record of the finished call *)
Returned(i, status) ==
    [ i EXCEPT !.last = [ i.rq EXCEPT !.st = "returned", !.final = status, !.tok = "None",
                                      !.tok0 = "None",
                                      !.first = IF i.rq.st = "first" THEN status ELSE @ ],
               !.rq = NoReq ]

(* Returns without the test of line 149: a first 401 is returned as it is *)
ReturnsUnchecked(p, status) == inv[p].rq.st \in { "first", "retry" }

(* the answer with this status ends the pending _request of task p *)
Returns(p, status) ==
    \/ inv[p].rq.st = "first" /\ status # UNAUTHORIZED
    \/ inv[p].rq.st = "retry"

(* _request, lines 149-150: the first answer is 401, authenticate is called *)
request_unauthorized(p) ==
    /\ inv[p].rq.st = "first"
    /\ inv' = [ inv EXCEPT ![p] = SendAuth([ @ EXCEPT !.rq.first = UNAUTHORIZED ], @.pc) ]
    /\ UNCHANGED << environ, token, access_ctl, create_timestamps, now >>

(* authenticate_raises with the stored token dropped on a refusal *)
authenticate_raises_clearing(p, status) ==
    /\ inv[p].rq.st = "auth"
    /\ IsError(status)
    /\ token' = "None"
    /\ LET i == inv[p]
       IN  inv' = [ inv EXCEPT ![p] =
                      Finish([ i EXCEPT !.last = IF i.pc = "authenticate" THEN NoReq
                                                 ELSE [ i.rq EXCEPT !.st = "raised", !.tok = "None",
                                                                    !.tok0 = "None",
                                                                    !.authok = "fail" ] ],
                             Msg("HTTPStatusError", << >>)) ]
    /\ UNCHANGED << environ, access_ctl, create_timestamps, now >>

(* authenticate, line 136: the token endpoint refuses; raise_for_status    *)
(* raises, and no caller catches it                                        *)
authenticate_raises(p, status) ==
    /\ inv[p].rq.st = "auth"
    /\ IsError(status)
    /\ LET i == inv[p]
       IN  inv' = [ inv EXCEPT ![p] =
                      Finish([ i EXCEPT !.last = IF i.pc = "authenticate" THEN NoReq
                                                 ELSE [ i.rq EXCEPT !.st = "raised", !.tok = "None",
                                                                    !.tok0 = "None",
                                                                    !.authok = "fail" ] ],
                             Msg("HTTPStatusError", << >>)) ]
    /\ UNCHANGED << environ, token, access_ctl, create_timestamps, now >>

(* request_retries with the headers of the first attempt: line 151 left out *)
request_retries_stale(p, tok) ==
    /\ inv[p].rq.st = "auth"
    /\ inv[p].pc # "authenticate"
    /\ token' = tok
    /\ inv' = [ inv EXCEPT ![p].rq = [ @ EXCEPT !.st = "retry", !.authok = "ok",
                                               !.sends = @ + 1 ] ]
    /\ UNCHANGED << environ, access_ctl, create_timestamps, now >>

(* authenticate inside _request, lines 137 and 151-152: the token is       *)
(* stored and the request is sent again with it                            *)
request_retries(p, tok) ==
    /\ inv[p].rq.st = "auth"
    /\ inv[p].pc # "authenticate"
    /\ token' = tok
    /\ inv' = [ inv EXCEPT ![p].rq = [ @ EXCEPT !.st = "retry", !.authok = "ok",
                                               !.sends = @ + 1, !.tok = tok ] ]
    /\ UNCHANGED << environ, access_ctl, create_timestamps, now >>

(* raise_for_status left out: a failure answer is taken for a result *)
raise_for_status_omitted(p, status) ==
    /\ Returns(p, status)
    /\ IsError(status)
    /\ inv' = [ inv EXCEPT ![p] = Finish(Returned(@, status), Msg("Updated", << @.record_id >>)) ]
    /\ UNCHANGED << environ, token, access_ctl, create_timestamps, now >>

(* raise_for_status with the time of a failed create_record recorded *)
raise_for_status_recorded(p, status) ==
    /\ Returns(p, status)
    /\ IsError(status)
    /\ inv' = [ inv EXCEPT ![p] = Finish(Returned(@, status), Msg("HTTPStatusError", << >>)) ]
    /\ create_timestamps' = IF inv[p].pc = "create_record"
                            THEN Append(create_timestamps, now) ELSE create_timestamps
    /\ UNCHANGED << environ, token, access_ctl, now >>

(* query, get_record, create_record, update_record: raise_for_status on    *)
(* the response _request returned; no tool catches the HTTPStatusError     *)
raise_for_status(p, status) ==
    /\ Returns(p, status)
    /\ IsError(status)
    /\ inv' = [ inv EXCEPT ![p] = Finish(Returned(@, status), Msg("HTTPStatusError", << >>)) ]
    /\ UNCHANGED << environ, token, access_ctl, create_timestamps, now >>

----------------------------------------------------------------------------
(* Startup *)

(* SOQL "LIMIT n": the number of rows returned when m rows match *)
Limit(m, n) == IF m > n THEN n ELSE m

(* lifespan, lines 323-335 *)
lifespan ==
    /\ inv[Boot].op = "idle"
    /\ inv' = [ inv EXCEPT ![Boot] =
                  IF ~environ.complete
                  THEN Finish([ @ EXCEPT !.op = "lifespan" ],
                              Msg("RuntimeError", << << "Missing required environment variables" >> >>))
                  ELSE SendAuth([ @ EXCEPT !.op = "lifespan",
                                           !.rq = [ NoReq EXCEPT !.method = "POST",
                                                                 !.path = "oauth2/token" ] ],
                                "authenticate") ]
    /\ UNCHANGED << environ, token, access_ctl, create_timestamps, now >>

(* lifespan, lines 335-338: authenticate stored the token; AccessControl   *)
(* is constructed (lines 195-201) and resolve_user sends its query         *)
lifespan_authenticated(tok) ==
    /\ inv[Boot].rq.st = "auth"
    /\ inv[Boot].pc = "authenticate"
    /\ token' = tok
    /\ access_ctl' = [ NoAccessControl EXCEPT
                         !.is_manager = (Strip(Lower(environ.USER_EMAIL)) = MANAGER_EMAIL) ]
    /\ inv' = [ inv EXCEPT ![Boot] =
                  [ SendRequest(@, "GET", "query", "resolve_user") EXCEPT !.rq.tok = tok,
                                                                          !.rq.tok0 = tok ] ]
    /\ UNCHANGED << environ, create_timestamps, now >>

(* resolve_user, lines 207-212: the answer to the user query *)
(* the query says LIMIT 1; id and profile are those of the row returned     *)
resolve_user(status, matches, id, profile) ==
    /\ inv[Boot].pc = "resolve_user"
    /\ Returns(Boot, status)
    /\ ~IsError(status)
    /\ LET rows == Limit(matches, 1)
           i    == [ Returned(inv[Boot], status) EXCEPT !.matches = matches, !.rows = rows ]
       IN  IF rows = 0
           THEN /\ inv' = [ inv EXCEPT ![Boot] =
                              Finish(i, Msg("RuntimeError", << << "No active Salesforce user found" >> >>)) ]
                /\ UNCHANGED access_ctl
           ELSE /\ access_ctl' = [ access_ctl EXCEPT !.user_id = id,
                                                     !.profile_name = profile,
                                                     !.is_admin = (profile = ADMIN_PROFILE) ]
                /\ inv' = [ inv EXCEPT ![Boot] = [ i EXCEPT !.pc = "yield" ] ]
    /\ UNCHANGED << environ, token, create_timestamps, now >>

(* the server takes tool calls once lifespan has reached its yield *)
Serving == inv[Boot].pc = "yield"

(* time passes: the clock moves on by step seconds *)
Tick(step) ==
    /\ now + step <= MaxTime
    /\ now' = now + step
    /\ UNCHANGED << environ, token, access_ctl, create_timestamps, inv >>

----------------------------------------------------------------------------
(* Helpers of the tools *)

(* Recent with "<=" for "<": a create of exactly 60 seconds ago still counts *)
RecentInclusive(t) == { k \in 1..Len(create_timestamps) : t - create_timestamps[k] <= CREATE_WINDOW_SECONDS }

(* [t for t in create_timestamps if now - t < CREATE_WINDOW_SECONDS] *)
Recent(t) == { k \in 1..Len(create_timestamps) : t - create_timestamps[k] < CREATE_WINDOW_SECONDS }

(* RateLimited with ">" for ">=": a sixth create passes *)
RateLimitedOffByOne == Cardinality(Recent(now)) > MAX_CREATES_PER_WINDOW

(* lines 370-372 and 510-512 *)
RateLimited == Cardinality(Recent(now)) >= MAX_CREATES_PER_WINDOW

RateLimitMsg == Msg("Rate limit reached", << >>)

(* the first of the messages that is an error: "if err: return err" *)
RECURSIVE FirstError(_)
FirstError(errs) ==
    IF errs = << >> THEN NoMsg
    ELSE IF Head(errs) # NoMsg THEN Head(errs) ELSE FirstError(Tail(errs))

(* SendMutation with the HTTP method DELETE *)
SendMutationAsDelete(i, method, sobject, data, pc) ==
    [ SendRequest(i, "DELETE", sobject, pc)
        EXCEPT !.muts = @ + 1,
               !.payload = << [ sobject |-> sobject, data |-> data ] >> ]

(* a task calls create_record or update_record: one mutating call, with    *)
(* the object, the record and the field map it carries                     *)
SendMutation(i, method, sobject, data, pc) ==
    [ SendRequest(i, method, sobject, pc)
        EXCEPT !.muts = @ + 1,
               !.payload = << [ sobject |-> sobject, data |-> data ] >> ]

Field(f, v) == [ f |-> f, str |-> TRUE, v |-> v ]

OptField(f, o) == IF Truthy(o) THEN << Field(f, o[1]) >> ELSE << >>

(* log_hours_validated without the check of the project task *)
log_hours_any_task(i) ==
    LET a == i.in
    IN  IF Truthy(a.project_type) /\ ~InList(a.project_type[1], VALID_PROJECT_TYPES)
        THEN Finish(i, MsgValid("Invalid Project Type", << a.project_type[1] >>, VALID_PROJECT_TYPES))
        ELSE IF Truthy(a.record_stage) /\ ~InList(a.record_stage[1], VALID_RECORD_STAGES)
        THEN Finish(i, MsgValid("Invalid Record Stage", << a.record_stage[1] >>, VALID_RECORD_STAGES))
        ELSE SendMutation(i, "POST", "Implementation_Hours__c",
                          << Field("Implementation__c", i.record_id),
                             Field("Project_Task__c", a.project_task[1]) >>
                            \o OptField("Project_Type__c", a.project_type)
                            \o OptField("Record_Stage__c", a.record_stage),
                          "create_record")

(* log_hours, lines 525-553, once the record id is known *)
log_hours_validated(i) ==
    LET a       == i.in
        invalid == NotInList(Parts(a.project_task[1]), VALID_PROJECT_TASKS)
    IN  IF invalid # << >>
        THEN Finish(i, MsgValid("Invalid Project Task value(s)", invalid, VALID_PROJECT_TASKS))
        ELSE IF Truthy(a.project_type) /\ ~InList(a.project_type[1], VALID_PROJECT_TYPES)
        THEN Finish(i, MsgValid("Invalid Project Type", << a.project_type[1] >>, VALID_PROJECT_TYPES))
        ELSE IF Truthy(a.record_stage) /\ ~InList(a.record_stage[1], VALID_RECORD_STAGES)
        THEN Finish(i, MsgValid("Invalid Record Stage", << a.record_stage[1] >>, VALID_RECORD_STAGES))
        ELSE SendMutation(i, "POST", "Implementation_Hours__c",
                          << Field("Implementation__c", i.record_id),
                             Field("Project_Task__c", a.project_task[1]) >>
                            \o OptField("Project_Type__c", a.project_type)
                            \o OptField("Record_Stage__c", a.record_stage),
                          "create_record")

(* [f for f in updates if f not in UPDATABLE_FIELDS] *)
RECURSIVE InvalidFields(_)
InvalidFields(updates) ==
    IF updates = << >> THEN << >>
    ELSE (IF Head(updates).f \in UPDATABLE_FIELDS THEN << >> ELSE << << Head(updates).f >> >>)
             \o InvalidFields(Tail(updates))

(* lines 473-477: the first picklist error among the str values *)
RECURSIVE UpdateValueError(_)
UpdateValueError(updates) ==
    IF updates = << >> THEN NoMsg
    ELSE LET u   == Head(updates)
             err == IF u.str THEN validate_picklist(u.f, u.v) ELSE NoMsg
         IN  IF err # NoMsg THEN err ELSE UpdateValueError(Tail(updates))

DeniedMsg == Msg("Access denied: you are not the assigned CDE on this record. Only the CDE, admins, or the manager can update it.", << >>)

(* update_implementation_checked with update_record called before the     *)
(* picklist values are validated                                           *)
update_implementation_writes_first(i, allowed) ==
    LET updates == i.in.updates
        j       == [ i EXCEPT !.acl = IF allowed THEN "allow" ELSE "deny" ]
        sent    == SendMutation(j, "PATCH", "Implementation__c", updates, "update_record")
    IN  IF ~allowed THEN Finish(j, DeniedMsg)
        ELSE IF InvalidFields(updates) # << >>
        THEN Finish(j, Msg("Cannot update field(s)", InvalidFields(updates)))
        ELSE IF UpdateValueError(updates) # NoMsg
        THEN Finish(sent, UpdateValueError(updates))
        ELSE sent

(* update_implementation_checked without "if not allowed: return reason" *)
update_implementation_unchecked(i, allowed) ==
    LET updates == i.in.updates
        j       == [ i EXCEPT !.acl = IF allowed THEN "allow" ELSE "deny" ]
    IN  IF InvalidFields(updates) # << >>
        THEN Finish(j, Msg("Cannot update field(s)", InvalidFields(updates)))
        ELSE IF UpdateValueError(updates) # NoMsg
        THEN Finish(j, UpdateValueError(updates))
        ELSE SendMutation(j, "PATCH", "Implementation__c", updates, "update_record")

(* update_implementation_checked without the check of the field names *)
update_implementation_any_field(i, allowed) ==
    LET updates == i.in.updates
        j       == [ i EXCEPT !.acl = IF allowed THEN "allow" ELSE "deny" ]
    IN  IF ~allowed THEN Finish(j, DeniedMsg)
        ELSE IF UpdateValueError(updates) # NoMsg
        THEN Finish(j, UpdateValueError(updates))
        ELSE SendMutation(j, "PATCH", "Implementation__c", updates, "update_record")

(* update_implementation, lines 464-479, once can_update has answered *)
update_implementation_checked(i, allowed) ==
    LET updates == i.in.updates
        j       == [ i EXCEPT !.acl = IF allowed THEN "allow" ELSE "deny" ]
    IN  IF ~allowed
        THEN Finish(j, DeniedMsg)
        ELSE IF InvalidFields(updates) # << >>
        THEN Finish(j, Msg("Cannot update field(s)", InvalidFields(updates)))
        ELSE IF UpdateValueError(updates) # NoMsg
        THEN Finish(j, UpdateValueError(updates))
        ELSE SendMutation(j, "PATCH", "Implementation__c", updates, "update_record")

(* get_record("Implementation__c", implementation_id, ["CDE__c"]), line 222 *)
ReadOwner(i) ==
    SendRequest([ i EXCEPT !.reads = @ + 1 ], "GET",
                "sobjects/Implementation__c?fields=CDE__c", "can_update")

(* can_update with the manager forgotten: only an admin is allowed at once *)
can_update_admin_only(i) ==
    IF access_ctl.is_admin
    THEN update_implementation_checked(i, TRUE)
    ELSE ReadOwner(i)

(* can_update with a cache: a decision another invocation holds for the    *)
(* same record is taken over without a read                                *)
can_update_cached(i) ==
    LET known == { q \in Callers : inv[q].acl # "none" /\ inv[q].record_id = i.record_id }
    IN  IF access_ctl.is_admin \/ access_ctl.is_manager
        THEN update_implementation_checked(i, TRUE)
        ELSE IF known # { }
        THEN update_implementation_checked(i, inv[CHOOSE q \in known : TRUE].acl = "allow")
        ELSE ReadOwner(i)

(* can_update, lines 219-222: allow at once for an admin or the manager,   *)
(* else read the record's CDE__c                                           *)
can_update(i) ==
    IF access_ctl.is_admin \/ access_ctl.is_manager
    THEN update_implementation_checked(i, TRUE)
    ELSE ReadOwner(i)

(* the code that follows "record_id = await resolve_implementation_id" *)
Resolved(i) ==
    CASE i.op = "update_implementation" -> can_update(i)
      [] i.op = "log_hours"             -> log_hours_validated(i)
      [] i.op = "get_implementation"    ->
           SendRequest(i, "GET", "sobjects/Implementation__c?fields=all", "get_record")

(* resolve_implementation_id, lines 234-241 *)
resolve_implementation_id(i) ==
    LET name_or_id == Strip(i.in.ref)
    IN  IF LooksLikeId(name_or_id)
        THEN Resolved([ i EXCEPT !.record_id = name_or_id ])
        ELSE SendRequest([ i EXCEPT !.lookups = @ + 1 ], "GET", "query", "resolve")

(* str.upper() on the characters the statements are written with *)
UpperChar(c) ==
    CASE c = "s" -> "S" [] c = "e" -> "E" [] c = "l" -> "L" [] c = "c" -> "C"
      [] c = "t" -> "T" [] c = "d" -> "D" [] OTHER -> c

(* Upper without the conversion: the statement is compared as written *)
UpperOmitted(s) == s

Upper(s) == [ k \in 1..Len(s) |-> UpperChar(s[k]) ]

(* str.startswith *)
StartsWith(s, pre) == Len(s) >= Len(pre) /\ SubSeq(s, 1, Len(pre)) = pre

CannedQueries == { << "at_risk" >>, << "active" >>, << "bandwidth" >>, << "stale" >>, << "by_stage" >> }

(* Free without the startup: tools are taken before lifespan has yielded *)
FreeBeforeStartup(p) == inv[p].pc \in { "idle", "done" }

(* a caller's slot is free: no invocation of it is pending *)
Free(p) == Serving /\ inv[p].pc \in { "idle", "done" }

Start(op, a) ==
    [ Idle EXCEPT !.op = op, !.in = a, !.now = now, !.seen = Len(create_timestamps) ]

----------------------------------------------------------------------------
(* The tools *)

(* create_implementation, lines 369-394 *)
create_implementation(p, a) ==
    /\ Free(p)
    /\ Len(create_timestamps) < MaxCreates
    /\ LET i   == Start("create_implementation", a)
           err == FirstError(<< validate_picklist("Type__c", a.type),
                                validate_picklist("Contract_Type__c", a.contract_type),
                                IF Truthy(a.migration_type)
                                THEN validate_picklist("Migration_Type__c", a.migration_type[1])
                                ELSE NoMsg,
                                IF Truthy(a.features)
                                THEN validate_picklist("Features__c", a.features[1])
                                ELSE NoMsg >>)
       IN  inv' = [ inv EXCEPT ![p] =
                      IF RateLimited THEN Finish(i, RateLimitMsg)
                      ELSE IF err # NoMsg THEN Finish([ i EXCEPT !.admit = TRUE ], err)
                      ELSE SendRequest([ i EXCEPT !.admit = TRUE ], "GET", "query", "opportunity") ]
    /\ UNCHANGED << environ, token, access_ctl, create_timestamps, now >>

(* create_implementation_opportunity without "if not result.get(records)": *)
(* the record is created whatever the Opportunity query returned           *)
create_implementation_any_opportunity(p, status, rows) ==
    /\ inv[p].pc = "opportunity"
    /\ Returns(p, status)
    /\ ~IsError(status)
    /\ LET i == [ Returned(inv[p], status) EXCEPT !.rows = rows ]
           a == i.in
       IN  inv' = [ inv EXCEPT ![p] =
                      SendMutation(i, "POST", "Implementation__c",
                                   << Field("Opportunity__c", a.ref),
                                      Field("Type__c", a.type),
                                      Field("Contract_Type__c", a.contract_type) >>,
                                   "create_record") ]
    /\ UNCHANGED << environ, token, access_ctl, create_timestamps, now >>

(* create_implementation, lines 395-423: the answer to the Opportunity query *)
create_implementation_opportunity(p, status, rows) ==
    /\ inv[p].pc = "opportunity"
    /\ Returns(p, status)
    /\ ~IsError(status)
    /\ LET i == [ Returned(inv[p], status) EXCEPT !.rows = rows ]
           a == i.in
       IN  inv' = [ inv EXCEPT ![p] =
                      IF rows = 0
                      THEN Finish(i, Msg("No Opportunity found with ID", << a.ref >>))
                      ELSE SendMutation(i, "POST", "Implementation__c",
                                        << Field("Opportunity__c", a.ref),
                                           Field("Type__c", a.type),
                                           Field("Contract_Type__c", a.contract_type),
                                           Field("Implementation_Stage__c", << "00 - Kick Off Call" >>),
                                           Field("Program_Health__c", << "Healthy" >>) >>
                                          \o OptField("Features__c", a.features)
                                          \o OptField("Migration_Type__c", a.migration_type),
                                        "create_record") ]
    /\ UNCHANGED << environ, token, access_ctl, create_timestamps, now >>

(* create_implementation, lines 424-436, and log_hours, lines 554-565:     *)
(* create_record returned, the time of the create is recorded              *)
record_created(p, status) ==
    /\ inv[p].pc = "create_record"
    /\ Returns(p, status)
    /\ ~IsError(status)
    /\ create_timestamps' = Append(create_timestamps, now)
    /\ inv' = [ inv EXCEPT ![p] =
                  Finish(Returned(@, status),
                         IF @.op = "log_hours" THEN Msg("Hours logged successfully.", << >>)
                         ELSE Msg("Implementation created successfully.", << >>)) ]
    /\ UNCHANGED << environ, token, access_ctl, now >>

(* update_implementation, lines 457-479 *)
update_implementation(p, a) ==
    /\ Free(p)
    /\ inv' = [ inv EXCEPT ![p] = resolve_implementation_id(Start("update_implementation", a)) ]
    /\ UNCHANGED << environ, token, access_ctl, create_timestamps, now >>

(* resolve_implementation_id, lines 242-244: the answer to the name lookup; *)
(* its ValueError is caught by the three tools that call it                 *)
resolve_lookup(p, status, rows) ==
    /\ inv[p].pc = "resolve"
    /\ Returns(p, status)
    /\ ~IsError(status)
    /\ LET i == [ Returned(inv[p], status) EXCEPT !.rows = rows ]
       IN  inv' = [ inv EXCEPT ![p] =
                      IF rows = 0
                      THEN Finish(i, Msg("No Implementation record found with Name",
                                         << Strip(i.in.ref) >>))
                      ELSE Resolved([ i EXCEPT !.record_id = LookupId ]) ]
    /\ UNCHANGED << environ, token, access_ctl, create_timestamps, now >>

(* can_update_owner with the identity overwritten: the CDE__c read becomes *)
(* the user id                                                             *)
can_update_owner_adopted(p, status, cde_id) ==
    /\ inv[p].pc = "can_update"
    /\ Returns(p, status)
    /\ ~IsError(status)
    /\ access_ctl' = [ access_ctl EXCEPT !.user_id = cde_id ]
    /\ inv' = [ inv EXCEPT ![p] =
                  update_implementation_checked([ Returned(@, status) EXCEPT !.cde_id = cde_id ], TRUE) ]
    /\ UNCHANGED << environ, token, create_timestamps, now >>

(* can_update, lines 222-225: the record's CDE__c has been read *)
can_update_owner(p, status, cde_id) ==
    /\ inv[p].pc = "can_update"
    /\ Returns(p, status)
    /\ ~IsError(status)
    /\ inv' = [ inv EXCEPT ![p] =
                  update_implementation_checked([ Returned(@, status) EXCEPT !.cde_id = cde_id ],
                                                cde_id = access_ctl.user_id) ]
    /\ UNCHANGED << environ, token, access_ctl, create_timestamps, now >>

(* update_implementation, lines 480-481: update_record returned *)
update_implementation_updated(p, status) ==
    /\ inv[p].pc = "update_record"
    /\ Returns(p, status)
    /\ ~IsError(status)
    /\ inv' = [ inv EXCEPT ![p] = Finish(Returned(@, status), Msg("Updated", << @.record_id >>)) ]
    /\ UNCHANGED << environ, token, access_ctl, create_timestamps, now >>

(* log_hours, lines 509-523 *)
log_hours(p, a) ==
    /\ Free(p)
    /\ Len(create_timestamps) < MaxCreates
    /\ LET i == Start("log_hours", a)
       IN  inv' = [ inv EXCEPT ![p] =
                      IF RateLimited THEN Finish(i, RateLimitMsg)
                      ELSE IF ~Truthy(a.project_task)
                      THEN Finish([ i EXCEPT !.admit = TRUE ],
                                  MsgValid("A project task is required.", << >>,
                                           VALID_PROJECT_TASKS))
                      ELSE resolve_implementation_id([ i EXCEPT !.admit = TRUE ]) ]
    /\ UNCHANGED << environ, token, access_ctl, create_timestamps, now >>

(* query_implementations, lines 619-631 *)
query_implementations(p, a) ==
    /\ Free(p)
    /\ LET i == Start("query_implementations", a)
       IN  inv' = [ inv EXCEPT ![p] =
                      IF a.query_type = << "custom" >>
                      THEN IF ~Truthy(a.custom_soql)
                           THEN Finish(i, Msg("custom_soql is required when query_type is 'custom'.", << >>))
                           ELSE IF ~StartsWith(Upper(Strip(a.custom_soql[1])),
                                               << "S", "E", "L", "E", "C", "T" >>)
                           THEN Finish(i, Msg("Only SELECT queries are allowed.", << >>))
                           ELSE SendRequest(i, "GET", "query", "query")
                      ELSE IF a.query_type \in CannedQueries
                      THEN SendRequest(i, "GET", "query", "query")
                      ELSE Finish(i, Msg("Invalid query_type", << a.query_type >>)) ]
    /\ UNCHANGED << environ, token, access_ctl, create_timestamps, now >>

(* query_implementations, lines 632-654: the answer to the query *)
query_implementations_result(p, status, total) ==
    /\ inv[p].pc = "query"
    /\ Returns(p, status)
    /\ ~IsError(status)
    /\ inv' = [ inv EXCEPT ![p] =
                  Finish([ Returned(@, status) EXCEPT !.rows = total ],
                         IF total = 0 THEN Msg("No results found for query type", << @.in.query_type >>)
                         ELSE IF @.in.query_type = << "by_stage" >>
                         THEN Msg("Implementations by stage", << >>)
                         ELSE Msg("Found record(s)", << >>)) ]
    /\ UNCHANGED << environ, token, access_ctl, create_timestamps, now >>

(* get_implementation, lines 666-688 *)
get_implementation(p, a) ==
    /\ Free(p)
    /\ inv' = [ inv EXCEPT ![p] = resolve_implementation_id(Start("get_implementation", a)) ]
    /\ UNCHANGED << environ, token, access_ctl, create_timestamps, now >>

(* get_implementation, lines 689-690: get_record returned *)
get_implementation_record(p, status) ==
    /\ inv[p].pc = "get_record"
    /\ Returns(p, status)
    /\ ~IsError(status)
    /\ inv' = [ inv EXCEPT ![p] = Finish(Returned(@, status), Msg("Record", << @.record_id >>)) ]
    /\ UNCHANGED << environ, token, access_ctl, create_timestamps, now >>

----------------------------------------------------------------------------
(* What the callers send *)

Id15 == << "a", "0" >> \o Chars(13, "X")

Id18 == << "A", "0" >> \o Chars(16, "X")

ImplName == << "I", "M", "P", "L", "-", "1" >>

Blanks(n) == Chars(n, " ")

(* record_name_or_id: ids, names, and both with blanks around them *)
Refs ==
    { Id15, Id18, ImplName,
      << " " >> \o Id15 \o << " " >>,                  \* 17 characters, an id once stripped
      Id15 \o Blanks(3),                               \* 18 characters, an id of 15 once stripped
      << "a", "0" >> \o Chars(14, "X") \o Blanks(2),   \* 18 characters, 16 once stripped
      << "a", "0" >> \o Chars(14, "X"),                \* 16 characters
      << "b", "0" >> \o Chars(13, "X"),                \* 15 characters, another prefix
      ImplName \o << " " >> }

OpportunityId == << "0", "0", "6" >>

CreateArgs == [ NoArgs EXCEPT !.ref = OpportunityId, !.type = << "Join" >>,
                              !.contract_type = << "Annual" >> ]

CreateInputs ==
    { CreateArgs,
      [ CreateArgs EXCEPT !.features = Some(<< "Compression", ";", " ", "Hypertables" >>),
                          !.migration_type = Some(<< "NA" >>) ],
      [ CreateArgs EXCEPT !.type = << "join" >> ],
      [ CreateArgs EXCEPT !.contract_type = << "Monthly" >> ],
      [ CreateArgs EXCEPT !.migration_type = Some(<< "Bogus" >>) ],
      [ CreateArgs EXCEPT !.features = Some(<< "Compression", ";", "Bogus" >>) ] }

StageUpdate == << Field("Implementation_Stage__c", << "02 - Planning" >>) >>

UpdateMaps ==
    { StageUpdate,
      << Field("Features__c", << "Caggs", ";", " ", "Vector" >>), Field("Comments__c", << "ok" >>) >>,
      << Field("Implementation_Stage__c", << "Planning" >>) >>,
      << Field("Comments__c", << "ok" >>), Field("Id", << "x" >>) >>,
      << Field("OwnerId", << "005V" >>) >>,
      << [ f |-> "Program_Health__c", str |-> FALSE, v |-> << "7" >> ] >>,
      << >> }

(* references for the tools that write: an id, a name, an id with blanks *)
WriteRefs == { Id15, ImplName, Id15 \o Blanks(3) }

UpdateInputs ==
    { [ NoArgs EXCEPT !.ref = r, !.updates = StageUpdate ] : r \in WriteRefs }
      \cup { [ NoArgs EXCEPT !.ref = Id15, !.updates = u ] : u \in UpdateMaps }
      \cup { [ NoArgs EXCEPT !.ref = ImplName, !.updates = << Field("Id", << "x" >>) >> ] }

LogArgs == [ NoArgs EXCEPT !.ref = Id15, !.project_task = Some(<< "POC" >>) ]

LogInputs ==
    { [ LogArgs EXCEPT !.ref = r ] : r \in WriteRefs }
      \cup { [ LogArgs EXCEPT !.project_task = t ] :
               t \in { None, Some(<< >>), Some(<< "POC", ";", " ", "Sales" >>),
                       Some(<< "poc" >>), Some(<< "POC", ";", "Nope" >>) } }
      \cup { [ LogArgs EXCEPT !.ref = ImplName, !.project_task = Some(<< "Nope" >>) ],
             [ LogArgs EXCEPT !.project_type = Some(<< "Support" >>),
                              !.record_stage = Some(<< "Trial" >>) ],
             [ LogArgs EXCEPT !.project_type = Some(<< "Holiday" >>) ],
             [ LogArgs EXCEPT !.record_stage = Some(<< "Beta" >>) ] }

QueryInputs ==
    { [ NoArgs EXCEPT !.query_type = << "active" >> ],
      [ NoArgs EXCEPT !.query_type = << "by_stage" >> ],
      [ NoArgs EXCEPT !.query_type = << "everything" >> ],
      [ NoArgs EXCEPT !.query_type = << "custom" >> ],
      [ NoArgs EXCEPT !.query_type = << "custom" >>, !.custom_soql = Some(<< >>) ],
      [ NoArgs EXCEPT !.query_type = << "custom" >>,
                      !.custom_soql = Some(<< " ", "s", "e", "l", "e", "c", "t", " ", "I", "d" >>) ],
      [ NoArgs EXCEPT !.query_type = << "custom" >>,
                      !.custom_soql = Some(<< "D", "E", "L", "E", "T", "E" >>) ] }

GetInputs == { [ NoArgs EXCEPT !.ref = r ] : r \in Refs }

(* the CDE__c of a record: a user, or no one *)
Owners == UserIds \cup { "005V", "None" }

----------------------------------------------------------------------------
(* The specifications *)

(* the startup task *)
Startup ==
    \/ lifespan
    \/ \E tok \in Tokens : lifespan_authenticated(tok)
    \/ \E matches \in 0..1, id \in UserIds, profile \in Profiles :
         resolve_user(OkStatus("GET"), matches, id, profile)

(* the upstream answers 401 or 500 to a pending call *)
Refuse(P) ==
    \/ \E p \in P : request_unauthorized(p)
    \/ \E p \in P, status \in ErrorStatuses : authenticate_raises(p, status)
    \/ \E p \in P, tok \in Tokens : request_retries(p, tok)
    \/ \E p \in P, status \in ErrorStatuses : raise_for_status(p, status)

(* the upstream answers the calls of the create-type tools *)
AnswerCreate(P) ==
    \/ \E p \in P, rows \in 0..1 : create_implementation_opportunity(p, OkStatus("GET"), rows)
    \/ \E p \in P : record_created(p, OkStatus("POST"))
    \/ \E p \in P, rows \in 0..1 : resolve_lookup(p, OkStatus("GET"), rows)

(* the upstream answers the calls of the other tools *)
AnswerOther(P) ==
    \/ \E p \in P, cde_id \in Owners : can_update_owner(p, OkStatus("GET"), cde_id)
    \/ \E p \in P : update_implementation_updated(p, OkStatus("PATCH"))
    \/ \E p \in P, total \in 0..1 : query_implementations_result(p, OkStatus("GET"), total)
    \/ \E p \in P : get_implementation_record(p, OkStatus("GET"))

(* Spec: one caller, which waits for each answer before its next call, and *)
(* every tool, within one second of the clock                              *)
Next ==
    \/ Startup
    \/ Refuse({ Boot, "c1" })
    \/ AnswerCreate({ "c1" })
    \/ AnswerOther({ "c1" })
    \/ \E a \in CreateInputs : create_implementation("c1", a)
    \/ \E a \in UpdateInputs : update_implementation("c1", a)
    \/ \E a \in LogInputs : log_hours("c1", a)
    \/ \E a \in QueryInputs : query_implementations("c1", a)
    \/ \E a \in GetInputs : get_implementation("c1", a)

Spec == Init /\ [][Next]_vars

(* what the caller sends in SpecRate and SpecConc *)
RateCreateInputs == { CreateArgs, [ CreateArgs EXCEPT !.type = << "join" >> ] }

RateLogInputs ==
    { LogArgs, [ LogArgs EXCEPT !.ref = ImplName ], [ LogArgs EXCEPT !.project_task = None ] }

(* SpecRate: one caller, which waits for each answer before its next call, *)
(* the create-type tools, and the clock                                    *)
NextRate ==
    \/ Startup
    \/ Refuse({ Boot, "c1" })
    \/ AnswerCreate({ "c1" })
    \/ Tick(TickStep)
    \/ \E a \in RateCreateInputs : create_implementation("c1", a)
    \/ \E a \in RateLogInputs : log_hours("c1", a)

SpecRate == Init /\ [][NextRate]_vars

(* SpecConc: two callers whose invocations are pending together and        *)
(* interleave at their awaits; the create-type tools; the upstream answers *)
(* every call, or fails it with 500                                        *)
NextConc ==
    \/ Startup
    \/ \E p \in Callers : raise_for_status(p, 500)
    \/ \E p \in Callers, rows \in 0..1 : create_implementation_opportunity(p, OkStatus("GET"), rows)
    \/ \E p \in Callers : record_created(p, OkStatus("POST"))
    \/ Tick(CREATE_WINDOW_SECONDS)
    \/ \E p \in Callers : create_implementation(p, CreateArgs)
    \/ \E p \in Callers : log_hours(p, LogArgs)

SpecConc == Init /\ [][NextConc]_vars

(* validate_picklist is applied to a field and a value; the arguments and  *)
(* what it returned are kept                                               *)
validate_picklist_call(field, value) ==
    /\ inv' = [ inv EXCEPT !["c1"] =
                  Finish([ Idle EXCEPT !.op = "validate_picklist",
                                       !.in = [ field |-> field, value |-> value ] ],
                         validate_picklist(field, value)) ]
    /\ UNCHANGED << environ, token, access_ctl, create_timestamps, now >>

(* fields with a single-valued domain, the one with a multi-valued domain, *)
(* and two with none                                                       *)
PicklistFields ==
    DOMAIN PICKLIST_VALIDATORS \cup DOMAIN MULTIPICKLIST_VALIDATORS \cup { "Comments__c", "Id" }

PicklistValues ==
    { << "Join" >>, << "join" >>, << " ", "Join" >>, << "Join", ";", "Other" >>,
      << "Annual" >>, << "Healthy" >>, << "02 - Planning" >>, << "NA" >>,
      << "Bogus" >>, << >>,
      << "Compression" >>, << "compression" >>,
      << "Compression", ";", "Hypertables" >>,
      << " ", "Compression", " ", ";", " ", "Hypertables", " " >>,
      << "Compression", ";", "Bogus" >>,
      << "Bogus", ";", "Caggs", ";", " ", "Nope" >>,
      << "Compression", ";" >>,
      << " ", " ", "Caggs", " ", " ", ";", "Vector" >>,
      << ";" >> }

(* the value just validated for a multi-valued field is split, trimmed and  *)
(* joined again, and validate_picklist is applied to what comes out; the    *)
(* first outcome is kept beside the second                                  *)
validate_picklist_rejoined ==
    /\ inv["c1"].op = "validate_picklist"
    /\ inv["c1"].in.field \in DOMAIN MULTIPICKLIST_VALIDATORS
    /\ LET field    == inv["c1"].in.field
           value    == inv["c1"].in.value
           rejoined == Join(Parts(value))
       IN  inv' = [ inv EXCEPT !["c1"] =
                      Finish([ Idle EXCEPT !.op = "validate_picklist_rejoined",
                                           !.in = [ field |-> field, value |-> value,
                                                    rejoined |-> rejoined,
                                                    first |-> inv["c1"].result ] ],
                             validate_picklist(field, rejoined)) ]
    /\ UNCHANGED << environ, token, access_ctl, create_timestamps, now >>

(* SpecPicklist: validate_picklist on every field and value of the two sets *)
NextPicklist ==
    \/ \E field \in PicklistFields, value \in PicklistValues : validate_picklist_call(field, value)
    \/ validate_picklist_rejoined

SpecPicklist == Init /\ [][NextPicklist]_vars

(* what the callers send in SpecAcl: one record, by id and by name *)
AclInputs ==
    { [ NoArgs EXCEPT !.ref = r, !.updates = u ] :
        r \in { Id15, ImplName }, u \in { StageUpdate, << Field("Id", << "x" >>) >> } }

(* SpecAcl: two callers who update, one after another or pending together  *)
NextAcl ==
    \/ Startup
    \/ Refuse(Callers)
    \/ \E p \in Callers : resolve_lookup(p, OkStatus("GET"), 1)
    \/ \E p \in Callers, cde_id \in Owners : can_update_owner(p, OkStatus("GET"), cde_id)
    \/ \E p \in Callers : update_implementation_updated(p, OkStatus("PATCH"))
    \/ \E p \in Callers, a \in AclInputs : update_implementation(p, a)

SpecAcl == Init /\ [][NextAcl]_vars

(* the users of the upstream: the one of the other specifications, and one *)
(* more with the same email                                                *)
AllUserIds == UserIds \cup { "005V" }

(* SpecBoot: the startup against an upstream where any number of active    *)
(* users, up to MaxMatches, have the configured email; then one caller     *)
(* who reads records                                                       *)
NextBoot ==
    \/ lifespan
    \/ \E tok \in Tokens : lifespan_authenticated(tok)
    \/ \E matches \in 0..MaxMatches, id \in AllUserIds, profile \in Profiles :
         resolve_user(OkStatus("GET"), matches, id, profile)
    \/ Refuse({ Boot, "c1" })
    \/ \E a \in GetInputs : get_implementation("c1", a)
    \/ \E rows \in 0..1 : resolve_lookup("c1", OkStatus("GET"), rows)
    \/ get_implementation_record("c1", OkStatus("GET"))

SpecBoot == Init /\ [][NextBoot]_vars

----------------------------------------------------------------------------
(* Properties *)

WriteTools == { "create_implementation", "update_implementation", "log_hours" }

CreateTools == { "create_implementation", "log_hours" }

(* the validation, access-denied and rate-limit messages *)
Rejections ==
    { "Rate limit reached", "Invalid value", "Invalid value(s)", "Cannot update field(s)",
      "A project task is required.", "Invalid Project Task value(s)",
      "Invalid Project Type", "Invalid Record Stage", DeniedMsg.kind }

Ended(p) == inv[p].pc = "done"

(* the invocation of p has returned a text: it has ended, and not by an exception *)
ReturnedText(p) == Ended(p) /\ inv[p].result.kind \notin Exceptions

(* C1: an invocation of create_implementation, update_implementation or    *)
(* log_hours that has returned a validation, access-denied or rate-limit   *)
(* message has issued no create_record and no update_record call.          *)
C1_NoWriteOnRejection ==
    \A p \in Callers :
        (Ended(p) /\ inv[p].op \in WriteTools /\ inv[p].result.kind \in Rejections)
            => inv[p].muts = 0

(* an update refused for its picklist value, by a caller who is neither    *)
(* admin nor manager and whose ownership was read from the upstream        *)
C1_Witness ==
    \E p \in Callers :
        /\ Ended(p) /\ inv[p].op = "update_implementation"
        /\ inv[p].result.kind = "Invalid value"
        /\ inv[p].cde_id = access_ctl.user_id
        /\ inv[p].muts = 0

(* C2, as claimed: every create_record or update_record call of the three  *)
(* tools comes after a can_update of the same invocation that allowed.     *)
C2_Original ==
    \A p \in Callers : inv[p].muts > 0 => inv[p].acl = "allow"

(* C2, amended: every update_record call of update_implementation comes    *)
(* after a can_update of the same invocation that returned allow; the      *)
(* create_record calls of create_implementation and log_hours are issued   *)
(* with no access-control decision at all.                                 *)
C2_UpdateNeedsAllow ==
    \A p \in Callers :
        inv[p].muts > 0 =>
            /\ inv[p].op = "update_implementation" => inv[p].acl = "allow"
            /\ inv[p].op \in CreateTools => inv[p].acl = "none"

(* update_record is pending for a caller who owns the record *)
C2_Witness ==
    \E p \in Callers :
        /\ inv[p].pc = "update_record" /\ inv[p].muts = 1
        /\ inv[p].acl = "allow" /\ inv[p].cde_id = access_ctl.user_id

(* C3, as claimed: every create_record or update_record call of the three  *)
(* tools comes after a rate check of the same invocation that passed.      *)
C3_Original ==
    \A p \in Callers : inv[p].muts > 0 => inv[p].admit

(* C3, amended: every create_record call of create_implementation and      *)
(* log_hours comes after the rate check of the same invocation, which      *)
(* passed with fewer than 5 creates recorded in the last 60 seconds;       *)
(* update_implementation makes no rate check before its update_record.     *)
C3_CreateNeedsAdmission ==
    \A p \in Callers :
        inv[p].muts > 0 =>
            /\ inv[p].op \in CreateTools =>
                 /\ inv[p].admit
                 /\ inv[p].pc = "create_record" =>
                      Cardinality({ k \in 1..Len(create_timestamps) :
                                      inv[p].now - create_timestamps[k] < CREATE_WINDOW_SECONDS })
                          < MAX_CREATES_PER_WINDOW
            /\ inv[p].op = "update_implementation" => ~inv[p].admit

(* the fifth create of the window is pending *)
C3_Witness ==
    \E p \in Callers :
        /\ inv[p].pc = "create_record" /\ inv[p].op = "log_hours" /\ inv[p].admit
        /\ Len(create_timestamps) = MAX_CREATES_PER_WINDOW - 1

(* the _request of task p that ended last *)
Finished(p) == inv[p].last.st \in { "returned", "raised" }

(* C4, as claimed: after a first answer of 401 one authenticate call and   *)
(* one re-send follow; after any other first answer, neither.              *)
C4_Original ==
    \A p \in Tasks :
        Finished(p) =>
            IF inv[p].last.first = UNAUTHORIZED
            THEN inv[p].last.auths = 1 /\ inv[p].last.sends = 2
            ELSE inv[p].last.auths = 0 /\ inv[p].last.sends = 1

(* C4, amended: after a first answer of 401 exactly one authenticate call  *)
(* follows; when it succeeds exactly one re-send follows, and when it is   *)
(* refused no re-send follows and the _request ends by the exception of    *)
(* authenticate.  After any other first answer there is no authenticate    *)
(* call and no re-send.  So a _request sends at most twice and asks for a  *)
(* token at most once.                                                     *)
C4_RetryOnce ==
    \A p \in Tasks :
        /\ Finished(p) =>
             IF inv[p].last.first = UNAUTHORIZED
             THEN /\ inv[p].last.auths = 1
                  /\ \/ inv[p].last.authok = "ok" /\ inv[p].last.sends = 2
                                                  /\ inv[p].last.st = "returned"
                     \/ inv[p].last.authok = "fail" /\ inv[p].last.sends = 1
                                                    /\ inv[p].last.st = "raised"
             ELSE /\ inv[p].last.auths = 0 /\ inv[p].last.sends = 1
                  /\ inv[p].last.authok = "none" /\ inv[p].last.st = "returned"
        /\ inv[p].rq.sends <= 2
        /\ inv[p].rq.auths <= 1

(* a _request of a tool that was answered 401, authenticated again, sent   *)
(* the request again and got 401 once more                                 *)
C4_Witness ==
    \E p \in Callers :
        /\ Finished(p) /\ inv[p].last.first = UNAUTHORIZED
        /\ inv[p].last.sends = 2 /\ inv[p].last.final = UNAUTHORIZED

(* C5: a tool invocation ends by returning a text, whatever the upstream   *)
(* answers; no exception leaves a tool.                                    *)
C5_NoExceptionLeavesTool ==
    \A p \in Callers : Ended(p) => inv[p].result.kind \notin Exceptions

(* the creates recorded in the 60 seconds that end with the k-th one *)
WindowEndingAt(k) ==
    { j \in 1..Len(create_timestamps) :
        /\ create_timestamps[j] <= create_timestamps[k]
        /\ create_timestamps[k] - create_timestamps[j] < CREATE_WINDOW_SECONDS }

(* the creates recorded in the 60 seconds before the rate check of the     *)
(* invocation i, its own create left out                                   *)
CountedAtCheck(i) ==
    Cardinality({ k \in 1..Len(create_timestamps) :
                    i.now - create_timestamps[k] < CREATE_WINDOW_SECONDS })
      - (IF i.pc = "done" /\ i.result.kind \in { "Hours logged successfully.",
                                                  "Implementation created successfully." }
         THEN 1 ELSE 0)

(* C6: with the create-type tools called one after another, no 60-second   *)
(* window holds more than 5 recorded creates; an invocation is rejected    *)
(* with the rate-limit message exactly when 5 or more creates are recorded *)
(* less than 60 seconds before it, so a create that is 60 seconds old or   *)
(* older gives its slot back.                                              *)
C6_FivePerWindow ==
    /\ \A k \in 1..Len(create_timestamps) :
           Cardinality(WindowEndingAt(k)) <= MAX_CREATES_PER_WINDOW
    /\ \A p \in Callers :
           inv[p].op \in CreateTools =>
               /\ inv[p].result = RateLimitMsg
                    <=> CountedAtCheck(inv[p]) >= MAX_CREATES_PER_WINDOW
               /\ inv[p].admit <=> inv[p].result # RateLimitMsg
               /\ inv[p].result = RateLimitMsg => Ended(p) /\ inv[p].muts = 0

(* five creates are recorded, exactly one of them is 60 seconds old at the *)
(* rate check, and the invocation has been admitted to the one free slot   *)
C6_Witness ==
    \E p \in Callers :
        /\ inv[p].pc = "create_record"
        /\ Len(create_timestamps) = MAX_CREATES_PER_WINDOW
        /\ CountedAtCheck(inv[p]) = MAX_CREATES_PER_WINDOW - 1
        /\ \E k \in 1..Len(create_timestamps) :
               inv[p].now - create_timestamps[k] = CREATE_WINDOW_SECONDS

(* C7: with invocations interleaving at their awaits, no 60-second window  *)
(* holds more than 5 successful creates.                                   *)
C7_FivePerWindowInterleaved ==
    \A k \in 1..Len(create_timestamps) :
        Cardinality(WindowEndingAt(k)) <= MAX_CREATES_PER_WINDOW

(* C8: can_update allows an admin or the manager without reading the       *)
(* record; for any other identity it allows exactly when the CDE__c it     *)
(* read is the resolved user id, and else denies with the fixed reason.    *)
C8_CanUpdate ==
    \A p \in Callers :
        inv[p].acl # "none" =>
            IF access_ctl.is_admin \/ access_ctl.is_manager
            THEN inv[p].acl = "allow" /\ inv[p].cde_id = "unread"
            ELSE /\ inv[p].cde_id # "unread"
                 /\ inv[p].acl = "allow" <=> inv[p].cde_id = access_ctl.user_id
                 /\ inv[p].acl = "deny" => Ended(p) /\ inv[p].result = DeniedMsg

(* a caller who is neither admin nor manager is denied on a record with    *)
(* another CDE                                                             *)
C8_Witness ==
    \E p \in Callers :
        /\ inv[p].acl = "deny" /\ inv[p].cde_id = "005V"
        /\ ~access_ctl.is_admin /\ ~access_ctl.is_manager

(* resolve_implementation_id has been called in the invocation i and has   *)
(* returned or sent its query                                              *)
ResolveCalled(i) == i.record_id # << >> \/ i.lookups > 0

(* 15 or 18 characters that begin with a0, in either case *)
IdShaped(s) ==
    /\ Len(s) \in { 15, 18 }
    /\ Len(s) >= 2 /\ s[1] \in { "a", "A" } /\ s[2] = "0"

(* C9, as claimed: an input of 15 or 18 characters that begins with a0 is  *)
(* returned unchanged with no query; any other input costs one query.      *)
C9_Original ==
    \A p \in Callers :
        ResolveCalled(inv[p]) =>
            IF IdShaped(inv[p].in.ref)
            THEN inv[p].lookups = 0 /\ inv[p].record_id = inv[p].in.ref
            ELSE inv[p].lookups = 1

(* C9, amended: the input is first stripped of the whitespace around it.   *)
(* A stripped input of 15 or 18 characters that begins with a0, in either  *)
(* case, is returned (stripped) with no query; any other input costs       *)
(* exactly one name lookup, which fails with the not-found error when the  *)
(* query returns no row.                                                   *)
C9_ResolveStripped ==
    \A p \in Callers :
        ResolveCalled(inv[p]) =>
            LET name == Strip(inv[p].in.ref)
            IN  IF IdShaped(name)
                THEN inv[p].lookups = 0 /\ inv[p].record_id = name
                ELSE /\ inv[p].lookups = 1
                     /\ inv[p].pc = "resolve" => inv[p].record_id = << >>
                     /\ inv[p].rows = 0 =>
                          /\ Ended(p) /\ inv[p].record_id = << >>
                          /\ inv[p].result = Msg("No Implementation record found with Name", << name >>)
                     /\ inv[p].rows = 1 => inv[p].record_id = LookupId

(* an id of 15 characters followed by three blanks is returned without the *)
(* blanks, and no query is sent                                            *)
C9_Witness ==
    \E p \in Callers :
        /\ inv[p].in.ref = Id15 \o Blanks(3)
        /\ inv[p].record_id = Id15 /\ inv[p].lookups = 0
        /\ inv[p].op = "get_implementation" /\ inv[p].pc = "get_record"

(* the updates map names a field outside UPDATABLE_FIELDS *)
NamesOtherField(updates) ==
    \E k \in 1..Len(updates) : updates[k].f \notin UPDATABLE_FIELDS

(* C10, as claimed: update_implementation with a field outside             *)
(* UPDATABLE_FIELDS returns the "Cannot update field(s)" message and calls *)
(* no update_record, for every record reference and caller.                *)
C10_Original ==
    \A p \in Callers :
        ( /\ inv[p].op = "update_implementation"
          /\ NamesOtherField(inv[p].in.updates)
          /\ ReturnedText(p) )
            => inv[p].result.kind = "Cannot update field(s)" /\ inv[p].muts = 0

(* C10, amended: update_implementation with a field outside                *)
(* UPDATABLE_FIELDS calls no update_record, for every record reference and *)
(* caller; it returns the "Cannot update field(s)" message naming those    *)
(* fields when the reference resolves and can_update allows; a name that   *)
(* matches no record gets the not-found message and a caller can_update    *)
(* denies gets the access-denied message instead.                          *)
C10_OtherFieldNeverWritten ==
    \A p \in Callers :
        ( inv[p].op = "update_implementation" /\ NamesOtherField(inv[p].in.updates) ) =>
            LET i     == inv[p]
                names == { << i.in.updates[k].f >> :
                             k \in { n \in 1..Len(i.in.updates) :
                                       i.in.updates[n].f \notin UPDATABLE_FIELDS } }
            IN  /\ i.muts = 0
                /\ i.acl = "allow" =>
                     /\ Ended(p) /\ i.result.kind = "Cannot update field(s)"
                     /\ { i.result.info[k] : k \in 1..Len(i.result.info) } = names
                /\ ReturnedText(p) =>
                     \/ i.result.kind = "Cannot update field(s)" /\ i.acl = "allow"
                     \/ i.result = DeniedMsg /\ i.acl = "deny"
                     \/ i.result.kind = "No Implementation record found with Name"
                          /\ i.rows = 0 /\ i.acl = "none"

(* the owner of the record asks for a field outside the list and is told   *)
(* which one                                                               *)
C10_Witness ==
    \E p \in Callers :
        /\ inv[p].op = "update_implementation" /\ Ended(p)
        /\ inv[p].result = Msg("Cannot update field(s)", << << "Id" >> >>)
        /\ inv[p].cde_id = access_ctl.user_id /\ inv[p].muts = 0

(* the project task is missing, or one of its parts is outside the list *)
UnconfirmedTask(o) ==
    ~Truthy(o) \/ NotInList(Parts(o[1]), VALID_PROJECT_TASKS) # << >>

(* C11, as claimed: log_hours with a missing or invalid project task, the  *)
(* rate limit not exhausted, returns a message with the full list of valid *)
(* tasks and calls no create_record, for every record reference.           *)
C11_Original ==
    \A p \in Callers :
        ( /\ inv[p].op = "log_hours" /\ inv[p].admit
          /\ UnconfirmedTask(inv[p].in.project_task)
          /\ ReturnedText(p) )
            => inv[p].result.valid = VALID_PROJECT_TASKS /\ inv[p].muts = 0

(* C11, amended: log_hours with a missing or invalid project task, the     *)
(* rate limit not exhausted, calls no create_record, for every record      *)
(* reference.  A missing (None or empty) task returns the "project task is *)
(* required" message with the full list before the reference is looked at; *)
(* an invalid task returns the "Invalid Project Task value(s)" message     *)
(* with the invalid parts and the full list when the reference resolves,   *)
(* and the not-found message, without the list, when the name matches no   *)
(* record.                                                                 *)
C11_UnconfirmedTaskNeverLogged ==
    \A p \in Callers :
        ( /\ inv[p].op = "log_hours" /\ inv[p].admit
          /\ UnconfirmedTask(inv[p].in.project_task) ) =>
            LET i    == inv[p]
                task == i.in.project_task
            IN  /\ i.muts = 0
                /\ ~Truthy(task) =>
                     /\ Ended(p) /\ ~ResolveCalled(i)
                     /\ i.result = MsgValid("A project task is required.", << >>,
                                            VALID_PROJECT_TASKS)
                /\ (Truthy(task) /\ ReturnedText(p)) =>
                     IF i.record_id # << >>
                     THEN i.result = MsgValid("Invalid Project Task value(s)",
                                              NotInList(Parts(task[1]), VALID_PROJECT_TASKS),
                                              VALID_PROJECT_TASKS)
                     ELSE /\ i.rows = 0
                          /\ i.result.kind = "No Implementation record found with Name"
                          /\ i.result.valid = << >>

(* the name was found, and the task outside the list is refused with the   *)
(* list                                                                    *)
C11_Witness ==
    \E p \in Callers :
        /\ inv[p].op = "log_hours" /\ Ended(p)
        /\ inv[p].in.ref = ImplName /\ inv[p].rows = 1
        /\ inv[p].result = MsgValid("Invalid Project Task value(s)", << << "Nope" >> >>,
                                    VALID_PROJECT_TASKS)
        /\ inv[p].muts = 0

(* C12: create_implementation whose Opportunity query returned no row     *)
(* has returned the "No Opportunity found" message for its opportunity id, *)
(* has called no create_record, and has recorded no timestamp:             *)
(* create_timestamps is as long as it was when the tool was called.        *)
C12_NoOpportunityNoCreate ==
    \A p \in Callers :
        (inv[p].op = "create_implementation" /\ inv[p].rows = 0) =>
            /\ Ended(p)
            /\ inv[p].result = Msg("No Opportunity found with ID", << inv[p].in.ref >>)
            /\ inv[p].muts = 0
            /\ Len(create_timestamps) = inv[p].seen

(* after two creates that were recorded, a create with valid arguments is  *)
(* told that its opportunity is unknown                                    *)
C12_Witness ==
    \E p \in Callers :
        /\ inv[p].op = "create_implementation" /\ inv[p].rows = 0
        /\ inv[p].in = CreateArgs /\ inv[p].admit
        /\ inv[p].result.kind = "No Opportunity found with ID"
        /\ Len(create_timestamps) = 2

(* an upstream call has been issued in the invocation i *)
UpstreamCalled(i) == i.rq.st # "none" \/ i.last.st # "none"

(* the statement, trimmed, begins with the six letters of SELECT in either *)
(* case                                                                    *)
SelectStatement(soql) ==
    LET t == Strip(soql)
        w == << {"S", "s"}, {"E", "e"}, {"L", "l"}, {"E", "e"}, {"C", "c"}, {"T", "t"} >>
    IN  Len(t) >= 6 /\ \A k \in 1..6 : t[k] \in w[k]

(* C13: query_implementations issues an upstream query exactly when the    *)
(* query_type is one of the canned ones, or is "custom" with a statement   *)
(* that, trimmed and upper-cased, starts with SELECT; with a missing       *)
(* statement, any other statement or an unknown query_type it has returned *)
(* its rejection message and issued no upstream call.                      *)
C13_OnlySelectReachesUpstream ==
    \A p \in Callers :
        inv[p].op = "query_implementations" =>
            LET i      == inv[p]
                a      == i.in
                custom == a.query_type = << "custom" >>
            IN  /\ UpstreamCalled(i) <=>
                     IF custom
                     THEN Truthy(a.custom_soql) /\ SelectStatement(a.custom_soql[1])
                     ELSE a.query_type \in CannedQueries
                /\ (custom /\ ~Truthy(a.custom_soql)) =>
                     /\ Ended(p)
                     /\ i.result.kind = "custom_soql is required when query_type is 'custom'."
                /\ (custom /\ Truthy(a.custom_soql) /\ ~SelectStatement(a.custom_soql[1])) =>
                     Ended(p) /\ i.result.kind = "Only SELECT queries are allowed."
                /\ (~custom /\ a.query_type \notin CannedQueries) =>
                     Ended(p) /\ i.result = Msg("Invalid query_type", << a.query_type >>)

(* a statement written " select Id" is sent to the upstream *)
C13_Witness ==
    \E p \in Callers :
        /\ inv[p].op = "query_implementations" /\ inv[p].pc = "query"
        /\ inv[p].in.query_type = << "custom" >>
        /\ inv[p].in.custom_soql = Some(<< " ", "s", "e", "l", "e", "c", "t", " ", "I", "d" >>)
        /\ inv[p].rq.sends = 1

(* the HTTP calls of SalesforceClient: the token POST of authenticate, the *)
(* GET of query, the GET of get_record, the POST of create_record and the  *)
(* PATCH of update_record                                                  *)
ClientCalls ==
    { << "POST", "oauth2/token" >>,
      << "GET", "query" >>,
      << "GET", "sobjects/Implementation__c?fields=CDE__c" >>,
      << "GET", "sobjects/Implementation__c?fields=all" >>,
      << "POST", "Implementation__c" >>,
      << "POST", "Implementation_Hours__c" >>,
      << "PATCH", "Implementation__c" >> }

(* the HTTP call a request record stands for: the token POST while         *)
(* authenticate is pending, else the method and path of the request        *)
HttpCall(r) ==
    IF r.st = "auth" THEN << "POST", "oauth2/token" >> ELSE << r.method, r.path >>

(* C14: every HTTP call issued, pending or ended, is the token POST, a GET *)
(* query, a GET of a record, a POST create or a PATCH update: no DELETE is *)
(* ever sent, whatever the tools are called with.                          *)
C14_NoDelete ==
    \A p \in Tasks :
        /\ inv[p].rq.st # "none" =>
             HttpCall(inv[p].rq) \in ClientCalls /\ inv[p].rq.method # "DELETE"
        /\ inv[p].last.st # "none" =>
             HttpCall(inv[p].last) \in ClientCalls /\ inv[p].last.method # "DELETE"
        /\ inv[p].muts > 0 =>
             \A k \in 1..Len(inv[p].payload) :
                 inv[p].payload[k].sobject \in { "Implementation__c", "Implementation_Hours__c" }

(* an update has been written with PATCH *)
C14_Witness ==
    \E p \in Callers :
        /\ inv[p].op = "update_implementation" /\ Ended(p)
        /\ inv[p].last.method = "PATCH" /\ inv[p].last.st = "returned"
        /\ inv[p].result.kind = "Updated"

(* C15: resolve_user succeeds, and the server starts, only when exactly    *)
(* one active user has the configured email; with no such user or with     *)
(* more than one, startup is aborted by an exception.                      *)
C15_ExactlyOneUser ==
    inv[Boot].matches # -1 =>
        IF inv[Boot].matches = 1
        THEN Serving /\ access_ctl.user_id # "None"
        ELSE /\ inv[Boot].pc = "done" /\ inv[Boot].result.kind = "RuntimeError"
             /\ access_ctl.user_id = "None"

(* the texts create_implementation and log_hours return after a create *)
Created == { "Implementation created successfully.", "Hours logged successfully." }

(* a step that changes create_timestamps appends the time of the step, and *)
(* is the step in which a create_record call of a create-type tool         *)
(* returns with a success status                                           *)
AppendsAfterCreate ==
    create_timestamps' # create_timestamps =>
        /\ create_timestamps' = Append(create_timestamps, now)
        /\ \E p \in Callers :
               /\ inv[p].op \in CreateTools /\ inv[p].pc = "create_record"
               /\ inv'[p].pc = "done" /\ inv'[p].result.kind \in Created
               /\ inv'[p].last.st = "returned" /\ ~IsError(inv'[p].last.final)
               /\ inv'[p].last.method = "POST"

(* an invocation of a create-type tool has left create_timestamps as long  *)
(* as it found it, unless it has ended with a create                       *)
UnchangedUnlessCreated ==
    \A p \in Callers :
        inv[p].op \in CreateTools =>
            Len(create_timestamps) =
                inv[p].seen + (IF Ended(p) /\ inv[p].result.kind \in Created THEN 1 ELSE 0)

(* C16: a timestamp is appended to create_timestamps only in the step in   *)
(* which a create_record call returns with success; an invocation of       *)
(* create_implementation or log_hours that is rate-limited, fails          *)
(* validation, finds no record, or whose create_record fails, leaves       *)
(* create_timestamps unchanged.                                            *)
C16_AppendOnlyAfterCreate ==
    [][AppendsAfterCreate]_vars /\ []UnchangedUnlessCreated

(* a create_record call of log_hours has failed with 500 after two creates *)
(* were recorded, and create_timestamps still holds the two                *)
C16_Witness ==
    \E p \in Callers :
        /\ inv[p].op = "log_hours" /\ Ended(p) /\ inv[p].muts = 1
        /\ inv[p].last.method = "POST" /\ inv[p].last.final = 500
        /\ inv[p].result.kind = "HTTPStatusError"
        /\ inv[p].seen = 2 /\ Len(create_timestamps) = 2

Privileged == access_ctl.is_admin \/ access_ctl.is_manager

(* C17: every can_update decision for an identity that is neither admin    *)
(* nor manager has issued exactly one get_record, which asks for CDE__c    *)
(* only, in its own invocation: nothing is taken over from an earlier      *)
(* decision, so two decisions on one record have issued two reads.  A      *)
(* decision for an admin or manager has issued no read.                    *)
C17_OneReadPerDecision ==
    \A p \in Callers :
        /\ inv[p].reads <= 1
        /\ Privileged => inv[p].reads = 0
        /\ (inv[p].acl # "none" /\ ~Privileged) =>
             inv[p].reads = 1 /\ inv[p].cde_id # "unread"
        /\ inv[p].pc = "can_update" =>
             /\ inv[p].reads = 1 /\ inv[p].acl = "none"
             /\ inv[p].rq.method = "GET"
             /\ inv[p].rq.path = "sobjects/Implementation__c?fields=CDE__c"

(* two decisions on the same record, each with its own read: the record's  *)
(* CDE was the caller at the first and another user at the second          *)
C17_Witness ==
    /\ ~Privileged
    /\ inv["c1"].record_id = Id15 /\ inv["c2"].record_id = Id15
    /\ inv["c1"].acl = "allow" /\ inv["c1"].reads = 1
    /\ inv["c2"].acl = "deny" /\ inv["c2"].reads = 1
    /\ inv["c1"].pc = "done"

(* value is one of the strings of the list valid, as written *)
Member(value, valid) == \E k \in 1..Len(valid) : value = << valid[k] >>

(* the positions of the separators of value, and its two ends *)
Seps(value) == { 0, Len(value) + 1 } \cup { k \in 1..Len(value) : value[k] = ";" }

(* the ';'-separated parts of value, each by the separators around it *)
PartsBetween(value) ==
    { << a, b >> \in Seps(value) \X Seps(value) :
        a < b /\ \A c \in Seps(value) : ~(a < c /\ c < b) }

(* the part of value between the separators a and b, trimmed *)
Trimmed(value, a, b) == Strip(SubSeq(value, a + 1, b - 1))

(* C18: validate_picklist returns no error for a field with a single-      *)
(* valued domain exactly when the value is a member of the domain as       *)
(* written, and else the error that names the value and lists the domain;  *)
(* for a field with a multi-valued domain exactly when every               *)
(* ';'-separated, trimmed part is a member, and else the error that names  *)
(* the parts that are not and lists the domain; for any other field it     *)
(* returns no error whatever the value.                                    *)
C18_ValidatePicklist ==
    inv["c1"].op = "validate_picklist" =>
        LET field == inv["c1"].in.field
            value == inv["c1"].in.value
            err   == inv["c1"].result
        IN  IF field \in DOMAIN PICKLIST_VALIDATORS
            THEN LET valid == PICKLIST_VALIDATORS[field]
                 IN  /\ err = NoMsg <=> Member(value, valid)
                     /\ err # NoMsg =>
                          /\ err.kind = "Invalid value"
                          /\ err.info = << << field >>, value >>
                          /\ err.valid = valid
            ELSE IF field \in DOMAIN MULTIPICKLIST_VALIDATORS
            THEN LET valid == MULTIPICKLIST_VALIDATORS[field]
                     bad   == { ab \in PartsBetween(value) :
                                  ~Member(Trimmed(value, ab[1], ab[2]), valid) }
                 IN  /\ err = NoMsg <=> bad = { }
                     /\ err # NoMsg =>
                          /\ err.kind = "Invalid value(s)"
                          /\ err.info[1] = << field >>
                          /\ { err.info[k] : k \in 2..Len(err.info) }
                               = { Trimmed(value, ab[1], ab[2]) : ab \in bad }
                          /\ Len(err.info) = 1 + Cardinality(bad)
                          /\ err.valid = valid
            ELSE err = NoMsg

(* two features with blanks around them pass for Features__c *)
C18_Witness ==
    /\ inv["c1"].op = "validate_picklist"
    /\ inv["c1"].in.field = "Features__c"
    /\ inv["c1"].in.value = << " ", "Compression", " ", ";", " ", "Hypertables", " " >>
    /\ inv["c1"].result = NoMsg

(* a 2xx status *)
Success(status) == status >= 200 /\ status < 300

(* C19: when the final response of the _request under query, get_record,   *)
(* create_record or update_record is a failure, a second 401 after the     *)
(* retry included, the operation has raised HTTPStatusError and the task   *)
(* that called it holds nothing decoded from that response; a task goes on *)
(* with a result only after a final response with a success status.        *)
C19_ResultOnlyOnSuccess ==
    \A p \in Tasks :
        LET i == inv[p]
        IN  /\ i.last.st = "returned" =>
                 IF Success(i.last.final)
                 THEN i.result.kind # "HTTPStatusError"
                 ELSE /\ i.pc = "done" /\ i.result = Msg("HTTPStatusError", << >>)
                      /\ i.last.path = "query" => i.rows = -1
                      /\ i.last.path = "sobjects/Implementation__c?fields=CDE__c" =>
                           i.cde_id = "unread" /\ i.acl = "none"
                      /\ i.last.method = "POST" => Len(create_timestamps) = i.seen
            /\ i.last.st = "raised" =>
                 i.pc = "done" /\ i.result = Msg("HTTPStatusError", << >>)
            /\ (i.pc = "done" /\ i.result.kind \in { "Updated", "Record", "Found record(s)" } \cup Created)
                 => i.last.st = "returned" /\ Success(i.last.final)
            /\ p = Boot /\ Serving => i.last.st = "returned" /\ Success(i.last.final)

(* update_record was answered 401, the token was renewed, the request was  *)
(* sent again and answered 401 again: the tool ends by the exception       *)
C19_Witness ==
    \E p \in Callers :
        /\ inv[p].op = "update_implementation" /\ Ended(p)
        /\ inv[p].last.method = "PATCH" /\ inv[p].last.st = "returned"
        /\ inv[p].last.sends = 2 /\ inv[p].last.final = UNAUTHORIZED
        /\ inv[p].result.kind = "HTTPStatusError"

(* once the server takes tool calls, no step changes the identity *)
IdentityKept == Serving => access_ctl' = access_ctl

(* the identity is the one resolve_user resolved from the configured email *)
IdentityResolved ==
    Serving =>
        /\ access_ctl.user_id \in UserIds
        /\ access_ctl.profile_name \in Profiles
        /\ access_ctl.is_admin <=> access_ctl.profile_name = ADMIN_PROFILE
        /\ access_ctl.is_manager <=> Strip(Lower(environ.USER_EMAIL)) = MANAGER_EMAIL

(* C20: user_id, profile_name, is_admin and is_manager are set by startup  *)
(* and changed by no tool operation: after startup, whatever tools are     *)
(* called, they have the values they had when startup completed.           *)
C20_IdentityImmutable == [][IdentityKept]_vars /\ []IdentityResolved

(* after startup a caller who is not the CDE was denied an update, and the *)
(* identity is the one startup resolved                                    *)
C20_Witness ==
    /\ Serving /\ access_ctl.user_id = "005U" /\ ~access_ctl.is_admin
    /\ \E p \in Callers :
           /\ inv[p].op = "update_implementation" /\ Ended(p)
           /\ inv[p].cde_id = "005V" /\ inv[p].result = DeniedMsg

(* the value of the entry u of a field map is valid for the domain of its  *)
(* field, if the field has one: a str that is a member, or whose parts are *)
(* all members                                                             *)
ValidForDomain(u) ==
    /\ u.f \in DOMAIN PICKLIST_VALIDATORS =>
         u.str /\ Member(u.v, PICKLIST_VALIDATORS[u.f])
    /\ u.f \in DOMAIN MULTIPICKLIST_VALIDATORS =>
         /\ u.str
         /\ \A ab \in PartsBetween(u.v) :
                Member(Trimmed(u.v, ab[1], ab[2]), MULTIPICKLIST_VALIDATORS[u.f])

(* C21: every update_record call of update_implementation carries a field  *)
(* map in which every field name is in UPDATABLE_FIELDS and every field    *)
(* with a domain holds a value valid for it, whether the caller gave a str *)
(* or a value of another type.                                             *)
C21_UpdateCarriesValidFields ==
    \A p \in Callers :
        (inv[p].op = "update_implementation" /\ inv[p].muts > 0) =>
            \A k \in 1..Len(inv[p].payload[1].data) :
                LET u == inv[p].payload[1].data[k]
                IN  u.f \in UPDATABLE_FIELDS /\ ValidForDomain(u)

(* C22: for a multi-valued field, the value split on ';', trimmed and      *)
(* joined again with ';' is accepted exactly when the value itself is, and *)
(* has the same trimmed parts: splitting and trimming is idempotent.       *)
C22_RejoinSameOutcome ==
    inv["c1"].op = "validate_picklist_rejoined" =>
        LET value    == inv["c1"].in.value
            rejoined == inv["c1"].in.rejoined
        IN  /\ inv["c1"].result = NoMsg <=> inv["c1"].in.first = NoMsg
            /\ inv["c1"].result = inv["c1"].in.first
            /\ { Trimmed(rejoined, ab[1], ab[2]) : ab \in PartsBetween(rejoined) }
                 = { Trimmed(value, ab[1], ab[2]) : ab \in PartsBetween(value) }
            /\ Cardinality(PartsBetween(rejoined)) = Cardinality(PartsBetween(value))

(* a value with two blanks on each side of a feature is accepted, and so   *)
(* is what is left of it once it is split, trimmed and joined again        *)
C22_Witness ==
    /\ inv["c1"].op = "validate_picklist_rejoined"
    /\ inv["c1"].in.value = << " ", " ", "Caggs", " ", " ", ";", "Vector" >>
    /\ inv["c1"].in.rejoined = << "Caggs", ";", "Vector" >>
    /\ inv["c1"].in.first = NoMsg /\ inv["c1"].result = NoMsg

(* C23: a tool runs, and issues upstream calls, only after startup has     *)
(* completed: the required configuration was present, then authenticate    *)
(* stored a token, then resolve_user resolved the user.  When one of the    *)
(* three fails, lifespan ends by an exception and no tool ever runs, so     *)
(* can_update never decides with an unresolved user id.                     *)
C23_ToolsAfterStartup ==
    /\ inv[Boot].pc = "authenticate" => environ.complete
    /\ inv[Boot].pc = "resolve_user" => environ.complete /\ token # "None"
    /\ Serving =>
         /\ environ.complete /\ token # "None"
         /\ access_ctl.user_id # "None" /\ inv[Boot].rows = 1
    /\ \A p \in Callers :
           /\ inv[p].op # "idle" => Serving
           /\ UpstreamCalled(inv[p]) => Serving
           /\ (inv[p].acl # "none" \/ inv[p].pc = "can_update") => access_ctl.user_id # "None"
    /\ (inv[Boot].pc = "done" \/ ~environ.complete) =>
         /\ \A p \in Callers : inv[p] = Idle
         /\ access_ctl.user_id = "None"
    /\ inv[Boot].pc = "done" => inv[Boot].result.kind \in Exceptions

(* startup has completed, and can_update waits for the CDE__c of a record  *)
C23_Witness ==
    /\ Serving /\ access_ctl.user_id = "005U"
    /\ inv["c1"].op = "update_implementation" /\ inv["c1"].pc = "can_update"
    /\ inv["c1"].rq.sends = 1

(* the step of task p in which the authenticate call of its _request ends *)
Reauthenticated(p) == inv[p].rq.st = "auth" /\ inv[p].pc # "authenticate" /\ inv'[p] # inv[p]

(* C24: when _request retries after a 401, the request it re-sends carries *)
(* the token that the authenticate call it has just awaited stored, which  *)
(* is the session token at that moment; the headers of the first attempt   *)
(* are not reused, so the re-sent token is the first attempt's only when   *)
(* the upstream has issued that same token again.  This holds also when     *)
(* another task re-authenticates in between.                                *)
C24_RetryCarriesStoredToken ==
    /\ [][ \A p \in Tasks :
              (Reauthenticated(p) /\ inv'[p].rq.st = "retry") =>
                  /\ inv'[p].rq.tok = token'
                  /\ token' \in Tokens
                  /\ inv'[p].rq.tok0 = inv[p].rq.tok0
                  /\ token' # inv[p].rq.tok0 => inv'[p].rq.tok # inv[p].rq.tok0
                  /\ inv'[p].rq.sends = 2 /\ inv'[p].rq.authok = "ok" ]_vars
    /\ [](\A p \in Tasks :
              inv[p].rq.st = "retry" =>
                  /\ inv[p].rq.tok \in Tokens /\ inv[p].rq.tok0 \in Tokens
                  /\ inv[p].rq.first = UNAUTHORIZED /\ inv[p].rq.auths = 1)

(* both callers were answered 401 with tok1 attached; c1 re-sends with the *)
(* tok2 its authenticate stored, then c2 stores tok1 and re-sends with it  *)
C24_Witness ==
    /\ inv["c1"].rq.st = "retry" /\ inv["c1"].rq.tok0 = "tok1" /\ inv["c1"].rq.tok = "tok2"
    /\ inv["c2"].rq.st = "retry" /\ inv["c2"].rq.tok0 = "tok1" /\ inv["c2"].rq.tok = "tok1"
    /\ token = "tok1"

(* C25: when the upstream refuses the authenticate call that follows a 401, *)
(* the stored token stays as it was, the request is not sent again and the *)
(* call ends by an exception; so from the moment startup has succeeded a    *)
(* token is stored in every state.                                          *)
C25_RefusedReauthKeepsToken ==
    /\ [][ \A p \in Tasks :
              (Reauthenticated(p) /\ inv'[p].rq.st # "retry") =>
                  /\ token' = token
                  /\ inv'[p].last.st = "raised" /\ inv'[p].last.authok = "fail"
                  /\ inv'[p].last.sends = 1 /\ inv'[p].last.auths = 1
                  /\ inv'[p].last.first = UNAUTHORIZED
                  /\ inv'[p].rq = NoReq
                  /\ Ended(p)' /\ inv'[p].result = Msg("HTTPStatusError", << >>) ]_vars
    /\ [](Serving => token \in Tokens)
    /\ [][ token # "None" => token' # "None" ]_vars

(* a tool call was answered 401 and the token endpoint refused: the call   *)
(* has ended by the exception after one send, and the token is still there *)
C25_Witness ==
    /\ Serving /\ token = "tok1"
    /\ inv["c1"].op = "get_implementation" /\ Ended("c1")
    /\ inv["c1"].result = Msg("HTTPStatusError", << >>)
    /\ inv["c1"].last.st = "raised" /\ inv["c1"].last.authok = "fail"
    /\ inv["c1"].last.sends = 1

====
